---- MODULE Spec2Model ----
(***************************************************************************)
(* Model of the CollabBoard AI service (src/main.py).                      *)
(*                                                                         *)
(* Strings are sequences of characters (one-character TLA+ strings), so    *)
(* that slicing, replacement and joining are computed as Python computes   *)
(* them.  The fixed text of the system prompt template is kept as whole    *)
(* fragments (one element per fragment).                                   *)
(*                                                                         *)
(* JSON values are records [k, n, s]: k is the Python type, n the number   *)
(* (floats are held in tenths), s the characters of a string.              *)
(***************************************************************************)
EXTENDS Integers, Sequences, FiniteSets, TLC

\* ---------------------------------------------------------------- bounds
MaxObjs == 2        \* longest board_state rendered by the formatting check
NumReq == 2         \* request slots that can be in flight at once

\* ------------------------------------------------------------ JSON values
NullVal == [k |-> "null", n |-> 0, s |-> <<>>]
IntVal(i) == [k |-> "int", n |-> i, s |-> <<>>]
FloatVal(tenths) == [k |-> "float", n |-> tenths, s |-> <<>>]
BoolVal(b) == [k |-> "bool", n |-> IF b THEN 1 ELSE 0, s |-> <<>>]
StrVal(chars) == [k |-> "str", n |-> 0, s |-> chars]

\* dict.get(key, default)
Get(obj, key, default) == IF key \in DOMAIN obj THEN obj[key] ELSE default

\* Python truthiness of a value (if obj.get("color"): ...)
Truthy(v) ==
    CASE v.k = "null" -> FALSE
      [] v.k = "str" -> Len(v.s) > 0
      [] OTHER -> v.n # 0

Abs(i) == IF i < 0 THEN 0 - i ELSE i

Digit(d) ==
    CASE d = 0 -> "0" [] d = 1 -> "1" [] d = 2 -> "2" [] d = 3 -> "3"
      [] d = 4 -> "4" [] d = 5 -> "5" [] d = 6 -> "6" [] d = 7 -> "7"
      [] d = 8 -> "8" [] d = 9 -> "9"

RECURSIVE NatDigits(_)
NatDigits(i) == IF i < 10 THEN <<Digit(i)>> ELSE NatDigits(i \div 10) \o <<Digit(i % 10)>>

\* str(v) / f"{v}": the value formatted with an empty format spec
Str(v) ==
    CASE v.k = "null" -> <<"N", "o", "n", "e">>
      [] v.k = "bool" -> IF v.n = 1 THEN <<"T", "r", "u", "e">> ELSE <<"F", "a", "l", "s", "e">>
      [] v.k = "int" -> (IF v.n < 0 THEN <<"-">> ELSE <<>>) \o NatDigits(Abs(v.n))
      [] v.k = "float" -> (IF v.n < 0 THEN <<"-">> ELSE <<>>) \o NatDigits(Abs(v.n) \div 10)
                            \o <<".">> \o <<Digit(Abs(v.n) % 10)>>
      [] OTHER -> v.s

\* a float held in tenths, rounded to an integer magnitude, ties to even
RoundHalfEven(tenths) ==
    LET q == tenths \div 10
        r == tenths % 10
    IN  IF r < 5 THEN q
        ELSE IF r > 5 THEN q + 1
        ELSE IF q % 2 = 0 THEN q ELSE q + 1

\* f"{v:.0f}": [raised, value]; NoneType rejects the format spec, str
\* rejects the format code, int and bool are converted to float
FormatFixed0(v) ==
    CASE v.k = "null" -> [raised |-> "TypeError", value |-> <<>>]
      [] v.k = "str" -> [raised |-> "ValueError", value |-> <<>>]
      [] v.k = "float" -> [raised |-> "none",
                           value |-> (IF v.n < 0 THEN <<"-">> ELSE <<>>)
                                       \o NatDigits(RoundHalfEven(Abs(v.n)))]
      [] OTHER -> [raised |-> "none",
                   value |-> (IF v.n < 0 THEN <<"-">> ELSE <<>>) \o NatDigits(Abs(v.n))]

\* s[:n]
Prefix(s, n) == SubSeq(s, 1, IF Len(s) < n THEN Len(s) ELSE n)

\* s.replace(old, new) for one-character old and new
Replace(s, old, new) == [i \in 1..Len(s) |-> IF s[i] = old THEN new ELSE s[i]]

\* sep.join(parts)
RECURSIVE Join(_, _)
Join(parts, sep) ==
    IF Len(parts) = 0 THEN <<>>
    ELSE IF Len(parts) = 1 THEN parts[1]
    ELSE parts[1] \o sep \o Join(Tail(parts), sep)

PreviewLen == 40

EmptyBoardSentence ==
    <<"T", "h", "e", " ", "b", "o", "a", "r", "d", " ", "i", "s", " ",
      "e", "m", "p", "t", "y", ".">>

\* a call that returned v / a call that raised e
Ok(v) == [raised |-> "none", value |-> v]
Err(e) == [raised |-> e, value |-> <<>>]

\* the first exception among results evaluated left to right, or "none"
RECURSIVE FirstRaised(_)
FirstRaised(results) ==
    IF Len(results) = 0 THEN "none"
    ELSE IF results[1].raised # "none" THEN results[1].raised
    ELSE FirstRaised(Tail(results))

\* IdTypeParts with obj.get('id') and obj.get('type') given no default
IdTypeParts_no_default(obj) ==
    << <<"i", "d", "=">> \o Str(Get(obj, "id", NullVal)),
       <<"t", "y", "p", "e", "=">> \o Str(Get(obj, "type", NullVal)) >>

\* lines 418-419
IdTypeParts(obj) ==
    << <<"i", "d", "=">> \o Str(Get(obj, "id", StrVal(<<"?">>))),
       <<"t", "y", "p", "e", "=">> \o Str(Get(obj, "type", StrVal(<<"?">>))) >>

\* lines 420-423, each formatted number with its outcome
NumberFormats(obj) ==
    << FormatFixed0(Get(obj, "x", IntVal(0))),
       FormatFixed0(Get(obj, "y", IntVal(0))),
       FormatFixed0(Get(obj, "width", IntVal(0))),
       FormatFixed0(Get(obj, "height", IntVal(0))) >>

NumberParts(nums) ==
    << <<"x", "=">> \o nums[1].value,
       <<"y", "=">> \o nums[2].value,
       <<"w", "=">> \o nums[3].value,
       <<"h", "=">> \o nums[4].value >>

\* lines 425-426
ColorPart(obj) ==
    IF Truthy(Get(obj, "color", NullVal))
    THEN << <<"c", "o", "l", "o", "r", "=">> \o Str(obj["color"]) >>
    ELSE <<>>

\* lines 427-429
TextPart(obj) ==
    IF Truthy(Get(obj, "text", NullVal))
    THEN << <<"t", "e", "x", "t", "=", "\"">>
            \o Replace(Prefix(Str(obj["text"]), PreviewLen), "\n", " ")
            \o <<"\"">> >>
    ELSE <<>>

\* lines 430-431
SelectedPart(obj) ==
    IF Truthy(Get(obj, "selected", NullVal))
    THEN << <<"S", "E", "L", "E", "C", "T", "E", "D">> >>
    ELSE <<>>

PartsWith(obj, nums) ==
    IF FirstRaised(nums) # "none" THEN Err(FirstRaised(nums))
    ELSE Ok(IdTypeParts(obj) \o NumberParts(nums)
              \o ColorPart(obj) \o TextPart(obj) \o SelectedPart(obj))

\* the parts list of one object (lines 417-431), or the first error raised
\* while building it
ObjectParts(obj) == PartsWith(obj, NumberFormats(obj))

\* line 432: lines.append("  " + "  ".join(parts)), after the object's parts
\* were built and before the later objects are looked at
AppendLine(parts, rest) ==
    IF parts.raised # "none" THEN Err(parts.raised)
    ELSE IF rest.raised # "none" THEN Err(rest.raised)
    ELSE Ok(<< <<" ", " ">> \o Join(parts.value, <<" ", " ">>) >> \o rest.value)

\* the loop of lines 415-432: the lines list, or the first error raised
RECURSIVE BoardLines(_)
BoardLines(board_state) ==
    IF Len(board_state) = 0 THEN Ok(<<>>)
    ELSE AppendLine(ObjectParts(board_state[1]), BoardLines(Tail(board_state)))

\* line 433
JoinLines(lines) ==
    IF lines.raised # "none" THEN Err(lines.raised)
    ELSE Ok(Join(lines.value, <<"\n">>))

\* format_board_state without the empty-board case of lines 413-414
format_board_state_no_empty_case(board_state) == JoinLines(BoardLines(board_state))

format_board_state(board_state) ==
    IF Len(board_state) = 0 THEN Ok(EmptyBoardSentence)
    ELSE JoinLines(BoardLines(board_state))

\* the fixed text of the template before the interpolation: the instruction
\* sections (one fragment) and the BOARD STATE header line
PromptInstructions == <<"<CANVAS, COLORS, DEFAULT SIZES, COMMAND RULES>", "\n">>
BoardStateHeader == <<"=== BOARD STATE ===", "\n">>

\* the f-string of lines 437-496 around the listing
Interpolate(listing) ==
    IF listing.raised # "none" THEN Err(listing.raised)
    ELSE Ok(PromptInstructions \o BoardStateHeader \o listing.value \o <<"\n">>)

build_system_prompt(board_state) == Interpolate(format_board_state(board_state))

\* ------------------------------------------------- inputs of the checks
Fields == {"id", "type", "x", "y", "width", "height", "color", "text", "selected"}

BaseObj ==
    [id |-> StrVal(<<"o", "1">>), type |-> StrVal(<<"r", "e", "c", "t">>),
     x |-> IntVal(10), y |-> IntVal(-12), width |-> IntVal(200), height |-> FloatVal(25),
     color |-> StrVal(<<"r", "e", "d">>), text |-> StrVal(<<"h", "i">>),
     selected |-> BoolVal(TRUE)]

Drop(obj, S) == [f \in (DOMAIN obj) \ S |-> obj[f]]
With(obj, f, v) == [g \in (DOMAIN obj) \cup {f} |-> IF g = f THEN v ELSE obj[g]]

LongText == [i \in 1..45 |-> IF i = 3 THEN "\n" ELSE IF i > 40 THEN "z" ELSE "a"]

\* objects that lack fields
DropSets ==
    {S \in SUBSET Fields : Cardinality(S) <= 1 \/ Cardinality(S) >= 8}
      \cup {{"x", "y", "width", "height"}, {"id", "type"}, {"color", "text", "selected"}}
LackingObjs == {Drop(BaseObj, S) : S \in DropSets}

\* objects that hold other values in a field
NumberVals ==
    {NullVal, StrVal(<<"a", "b">>), IntVal(7), FloatVal(25), FloatVal(35), FloatVal(-4),
     FloatVal(16), BoolVal(TRUE)}
OtherValues ==
    [f \in Fields |->
        CASE f = "x" -> NumberVals
          [] f \in {"y", "width", "height"} -> {NullVal, StrVal(<<"a", "b">>), FloatVal(35)}
          [] f \in {"id", "type"} -> {NullVal, IntVal(3), StrVal(<<"a", "\n", "b">>)}
          [] f = "color" -> {NullVal, StrVal(<<>>), IntVal(0), StrVal(<<"#", "\n", "f">>)}
          [] f = "text" -> {NullVal, StrVal(<<>>), IntVal(5), StrVal(LongText)}
          [] OTHER -> {NullVal, BoolVal(FALSE), StrVal(<<"n", "o">>)}]
ValuedObjs == UNION {{With(BaseObj, f, v) : v \in OtherValues[f]} : f \in Fields}

ObjPool == LackingObjs \cup ValuedObjs

RECURSIVE SeqsUpTo(_, _)
SeqsUpTo(S, n) ==
    IF n = 0 THEN {<<>>}
    ELSE LET shorter == SeqsUpTo(S, n - 1)
         IN  shorter \cup {Append(q, o) : q \in {p \in shorter : Len(p) = n - 1}, o \in S}

BoardInputs == SeqsUpTo(ObjPool, MaxObjs)

\* ---------------------------------------------------------------- state
VARIABLES
    env,          \* os.environ["ANTHROPIC_API_KEY"]: NullVal when unset
    TOOLS,        \* the module-level tool schema list
    pc,           \* per request slot: "idle", "awaiting" (at line 536), "done"
    endpoint,     \* the route that received the request
    body,         \* the AICommandRequest
    calls,        \* provider calls issued by the request (ainvoke, line 536)
    response,     \* local of run_ai_command: what ainvoke gave back
    result,       \* what the request handler returned or raised
    healthResp,   \* the last answer of GET /health
    board,        \* formatting check: the board_state under test
    fmt_pc,       \* formatting check: "input", "rendered", "prompted"
    rendered,     \* formatting check: result of format_board_state(board)
    prompt        \* formatting check: result of build_system_prompt(board)

reqVars == <<pc, endpoint, body, calls, response, result>>
svcVars == <<env, TOOLS, pc, endpoint, body, calls, response, result, healthResp>>
fmtVars == <<board, fmt_pc, rendered, prompt>>
vars == <<env, TOOLS, pc, endpoint, body, calls, response, result, healthResp,
          board, fmt_pc, rendered, prompt>>

Req == 1..NumReq

\* ------------------------------------------------------- the tool schema
ToolsDecl ==
    [i \in 1..18 |->
        [type |-> "function",
         name |-> <<"createStickyNote", "createRectangle", "createCircle", "updateObject",
                    "moveObject", "deleteObjects", "updateText", "changeColor", "clearBoard",
                    "arrangeInGrid", "alignObjects", "distributeObjects", "createTemplate",
                    "summarizeBoard", "setZoom", "panView", "fitToView", "resetView">>[i]]]

ToolNames(tools) == {tools[i].name : i \in 1..Len(tools)}

\* ------------------------------------------------- requests and replies
Credentials == {NullVal, StrVal(<<>>), StrVal(<<"k">>)}

Commands == {<<"a", "d", "d">>, <<"c", "l", "r">>}

BadObj == With(BaseObj, "x", NullVal)
\* the boards sent with requests: one that renders and one that does not
\* (the empty board and the other shapes are rendered under SpecFmt)
RequestBoards == {<<BaseObj>>, <<BadObj>>}

Bodies == [command : Commands, board_state : RequestBoards]

NoArgs == [k |-> "null", d |-> <<>>]
DictArgs(d) == [k |-> "dict", d |-> d]

\* what the provider can answer: an AIMessage with tool_calls and content
Replies ==
    { [kind |-> "message", tool_calls |-> <<>>, content |-> StrVal(<<"o", "k">>)],
      [kind |-> "message",
       tool_calls |-> << [name |-> "createCircle", args |-> DictArgs([x |-> IntVal(1)])],
                         [name |-> "resetView", args |-> NoArgs],
                         [name |-> "moveObject"] >>,
       content |-> StrVal(<<>>)],
      [kind |-> "message",
       tool_calls |-> << [name |-> "dropTable", args |-> DictArgs(<<>>)] >>,
       content |-> StrVal(<<"h", "m">>)] }

NoResponse == [kind |-> "none", tool_calls |-> <<>>, content |-> NullVal]
Failed(err) == [kind |-> err, tool_calls |-> <<>>, content |-> NullVal]
ProviderErrors == {"UpstreamError"}

NoBody == [command |-> <<>>, board_state |-> <<>>]
NoResult == [kind |-> "none", error |-> "none", handler |-> "none",
             tool_calls |-> <<>>, message |-> NullVal]
Raised(err) == [kind |-> "raised", error |-> err, handler |-> "none",
                tool_calls |-> <<>>, message |-> NullVal]

\* the error of line 521
KeyNotSet == "ValueError: ANTHROPIC_API_KEY environment variable not set"

ToolCallResult(name, args) == [name |-> name, args |-> args]

AICommandResponse(handler, tool_calls, message) ==
    [kind |-> "response", error |-> "none", handler |-> handler,
     tool_calls |-> tool_calls, message |-> message]

\* tc.get("args") or {}
ArgsOrEmpty(tc) ==
    IF "args" \in DOMAIN tc /\ tc.args.k = "dict" THEN tc.args.d ELSE <<>>

\* MapResponse with the free text surfaced whether or not tools were called
MapResponse_always_message(resp) ==
    LET tool_calls == [i \in 1..Len(resp.tool_calls) |->
                          ToolCallResult(resp.tool_calls[i].name, ArgsOrEmpty(resp.tool_calls[i]))]
    IN  AICommandResponse("langchain", tool_calls, StrVal(Str(resp.content)))

\* MapResponse keeping only the tool calls that carry arguments
MapResponse_skips_argless(resp) ==
    LET kept == SelectSeq(resp.tool_calls, LAMBDA tc : ArgsOrEmpty(tc) # <<>>)
        tool_calls == [i \in 1..Len(kept) |-> ToolCallResult(kept[i].name, kept[i].args.d)]
    IN  AICommandResponse("langchain", tool_calls,
                          IF Len(tool_calls) = 0 THEN StrVal(Str(resp.content)) ELSE NullVal)

\* lines 538-547: the provider's reply mapped to the response object
MapResponse(resp) ==
    LET tool_calls == [i \in 1..Len(resp.tool_calls) |->
                          ToolCallResult(resp.tool_calls[i].name, ArgsOrEmpty(resp.tool_calls[i]))]
    IN  AICommandResponse("langchain", tool_calls,
                          IF Len(tool_calls) = 0 THEN StrVal(Str(resp.content)) ELSE NullVal)

\* lines 523-536: the one call handed to the provider
ProviderCall(key, b, system) ==
    [model |-> "claude-sonnet-4-6", temperature |-> 0, api_key |-> key,
     tools |-> TOOLS, system |-> system, human |-> b.command]

\* ---------------------------------------------------------------- Init
SvcInit ==
    /\ env \in Credentials
    /\ TOOLS = ToolsDecl
    /\ pc = [r \in Req |-> "idle"]
    /\ endpoint = [r \in Req |-> "none"]
    /\ body = [r \in Req |-> NoBody]
    /\ calls = [r \in Req |-> <<>>]
    /\ response = [r \in Req |-> NoResponse]
    /\ result = [r \in Req |-> NoResult]
    /\ healthResp = [status |-> "none", version |-> "none"]

FmtIdle ==
    /\ board = <<>>
    /\ fmt_pc = "off"
    /\ rendered = [raised |-> "none", value |-> <<>>]
    /\ prompt = [raised |-> "none", value |-> <<>>]

Init == SvcInit /\ FmtIdle

\* -------------------------------------------------------------- actions
\* lines 531-536: the messages are built and the call is issued, unless
\* building the system prompt raised
Invoke(b, system) ==
    IF system.raised # "none"
    THEN [pc |-> "done", calls |-> <<>>, result |-> Raised(system.raised)]
    ELSE [pc |-> "awaiting", calls |-> <<ProviderCall(env, b, system.value)>>,
          result |-> NoResult]

\* run_ai_command without the guard of lines 520-521
run_ai_command_unguarded(b) == Invoke(b, build_system_prompt(b.board_state))

\* run_ai_command up to the awaited provider call (lines 519-536): where the
\* handler stands afterwards, the provider calls it issued, what it raised
run_ai_command(b) ==
    IF ~Truthy(env)
    THEN [pc |-> "done", calls |-> <<>>, result |-> Raised(KeyNotSet)]
    ELSE Invoke(b, build_system_prompt(b.board_state))

\* a route handler receives body b on slot r and runs the shared handler
Route(r, path, b, ran) ==
    /\ pc[r] = "idle"
    /\ endpoint' = [endpoint EXCEPT ![r] = path]
    /\ body' = [body EXCEPT ![r] = b]
    /\ pc' = [pc EXCEPT ![r] = ran.pc]
    /\ calls' = [calls EXCEPT ![r] = ran.calls]
    /\ result' = [result EXCEPT ![r] = ran.result]
    /\ response' = [response EXCEPT ![r] = NoResponse]
    /\ UNCHANGED <<env, TOOLS, healthResp, fmtVars>>

\* POST /recognize-intent as the legacy route, which took the command alone
recognize_intent_legacy(r, b) ==
    Route(r, "/recognize-intent", b, run_ai_command([b EXCEPT !.board_state = <<>>]))

\* POST /recognize-intent
recognize_intent(r, b) == Route(r, "/recognize-intent", b, run_ai_command(b))

\* POST /api/v2/ai-command
ai_command_v2(r, b) == Route(r, "/api/v2/ai-command", b, run_ai_command(b))

\* ainvoke_returns with the reply kept in one place shared by all requests:
\* the mapper reads the reply another finished request left there
ainvoke_returns_shared(r, resp) ==
    /\ pc[r] = "awaiting"
    /\ response' = [response EXCEPT ![r] = resp]
    /\ LET others == {o \in Req \ {r} : pc[o] = "done" /\ response[o].kind = "message"}
       IN  IF others = {}
           THEN result' = [result EXCEPT ![r] = MapResponse(resp)]
           ELSE result' = [result EXCEPT ![r] = MapResponse(response[CHOOSE o \in others : TRUE])]
    /\ pc' = [pc EXCEPT ![r] = "done"]
    /\ UNCHANGED <<env, TOOLS, endpoint, body, calls, healthResp, fmtVars>>

\* the awaited call returns: lines 536-547
ainvoke_returns(r, resp) ==
    /\ pc[r] = "awaiting"
    /\ response' = [response EXCEPT ![r] = resp]
    /\ result' = [result EXCEPT ![r] = MapResponse(resp)]
    /\ pc' = [pc EXCEPT ![r] = "done"]
    /\ UNCHANGED <<env, TOOLS, endpoint, body, calls, healthResp, fmtVars>>

\* the awaited call raises: the exception leaves run_ai_command at line 536
ainvoke_raises(r, err) ==
    /\ pc[r] = "awaiting"
    /\ response' = [response EXCEPT ![r] = Failed(err)]
    /\ result' = [result EXCEPT ![r] = Raised(err)]
    /\ pc' = [pc EXCEPT ![r] = "done"]
    /\ UNCHANGED <<env, TOOLS, endpoint, body, calls, healthResp, fmtVars>>

\* the HTTP exchange is over; the handler's frame and locals are gone
request_ends(r) ==
    /\ pc[r] = "done"
    /\ pc' = [pc EXCEPT ![r] = "idle"]
    /\ endpoint' = [endpoint EXCEPT ![r] = "none"]
    /\ body' = [body EXCEPT ![r] = NoBody]
    /\ calls' = [calls EXCEPT ![r] = <<>>]
    /\ response' = [response EXCEPT ![r] = NoResponse]
    /\ result' = [result EXCEPT ![r] = NoResult]
    /\ UNCHANGED <<env, TOOLS, healthResp, fmtVars>>

\* GET /health reporting on the provider credential
health_checks_credential ==
    /\ healthResp' = [status |-> IF Truthy(env) THEN "ok" ELSE "unconfigured",
                      version |-> "4.0.0"]
    /\ UNCHANGED <<env, TOOLS, reqVars, fmtVars>>

\* GET /health
health ==
    /\ healthResp' = [status |-> "ok", version |-> "4.0.0"]
    /\ UNCHANGED <<env, TOOLS, reqVars, fmtVars>>

\* the process environment is changed from outside the handlers
set_credential(v) ==
    /\ v # env
    /\ env' = v
    /\ UNCHANGED <<TOOLS, reqVars, healthResp, fmtVars>>

Next ==
    \/ \E r \in Req, b \in Bodies : recognize_intent(r, b)
    \/ \E r \in Req, b \in Bodies : ai_command_v2(r, b)
    \/ \E r \in Req, resp \in Replies : ainvoke_returns(r, resp)
    \/ \E r \in Req, err \in ProviderErrors : ainvoke_raises(r, err)
    \/ \E r \in Req : request_ends(r)
    \/ health
    \/ \E v \in Credentials : set_credential(v)

Spec == Init /\ [][Next]_vars

\* ------------------------------------------ the formatting functions alone
SvcIdle ==
    /\ env = NullVal
    /\ TOOLS = ToolsDecl
    /\ pc = [r \in Req |-> "idle"]
    /\ endpoint = [r \in Req |-> "none"]
    /\ body = [r \in Req |-> NoBody]
    /\ calls = [r \in Req |-> <<>>]
    /\ response = [r \in Req |-> NoResponse]
    /\ result = [r \in Req |-> NoResult]
    /\ healthResp = [status |-> "none", version |-> "none"]

InitFmt ==
    /\ SvcIdle
    /\ board \in BoardInputs
    /\ fmt_pc = "input"
    /\ rendered = [raised |-> "none", value |-> <<>>]
    /\ prompt = [raised |-> "none", value |-> <<>>]

Render ==
    /\ fmt_pc = "input"
    /\ rendered' = format_board_state(board)
    /\ fmt_pc' = "rendered"
    /\ UNCHANGED <<board, prompt, svcVars>>

BuildPrompt ==
    /\ fmt_pc = "rendered"
    /\ prompt' = build_system_prompt(board)
    /\ fmt_pc' = "prompted"
    /\ UNCHANGED <<board, rendered, svcVars>>

NextFmt == Render \/ BuildPrompt

SpecFmt == InitFmt /\ [][NextFmt]_vars

\* ------------------------------------------------------------ properties
Slot(r) == <<pc[r], endpoint[r], body[r], calls[r], response[r], result[r]>>

\* C1: a request that starts while ANTHROPIC_API_KEY is absent from the
\* environment ends at once in the configuration error, and no provider call
\* is issued for it.
C1_NoKeyNoCall ==
    [][\A r \in Req :
          (pc[r] = "idle" /\ pc'[r] # "idle" /\ env = NullVal)
             => /\ pc'[r] = "done"
                /\ result'[r] = Raised(KeyNotSet)
                /\ calls'[r] = <<>>]_vars

C1_Witness ==
    \E r \in Req : /\ env = NullVal
                   /\ pc[r] = "done"
                   /\ result[r] = Raised(KeyNotSet)
                   /\ calls[r] = <<>>

\* C2: in every successful response, a reply with zero tool calls gives an
\* empty tool_calls list and a non-null message, a reply with one or more tool
\* calls gives a null message; tool_calls is non-empty exactly when message
\* is null.
C2_MessageXorTools ==
    \A r \in Req :
        result[r].kind = "response"
           => /\ Len(response[r].tool_calls) = 0
                    => (result[r].tool_calls = <<>> /\ result[r].message # NullVal)
              /\ Len(response[r].tool_calls) >= 1 => result[r].message = NullVal
              /\ (result[r].tool_calls # <<>>) <=> (result[r].message = NullVal)

C2_Witness ==
    \E r1, r2 \in Req :
        /\ result[r1].kind = "response" /\ Len(response[r1].tool_calls) = 0
        /\ result[r2].kind = "response" /\ Len(response[r2].tool_calls) >= 1

\* C3: format_board_state returns a string and never raises, for every
\* board_state the request model accepts (fields missing, null or non-numeric
\* values in x, y, width, height included).
C3_NeverRaises == fmt_pc \in {"rendered", "prompted"} => rendered.raised = "none"

\* C4: every ToolCall of a returned response carries a name declared in TOOLS.
C4_NamesDeclared ==
    \A r \in Req :
        result[r].kind = "response"
           => \A i \in 1..Len(result[r].tool_calls) :
                 result[r].tool_calls[i].name \in ToolNames(TOOLS)

\* C5: a request that starts with the credential present issues exactly one
\* provider call; when that call fails the failure is what the request raises,
\* no further call is made and no response is returned.
C5_ExactlyOneCall ==
    [][\A r \in Req :
          /\ (pc[r] = "idle" /\ pc'[r] # "idle" /\ Truthy(env)) => Len(calls'[r]) = 1
          /\ (pc[r] = "awaiting" /\ pc'[r] = "done")
                => /\ calls'[r] = calls[r]
                   /\ response'[r].kind \in ProviderErrors
                         => result'[r] = Raised(response'[r].kind)]_vars

\* C6: requests in flight together are independent: a step of one request
\* leaves every other request's state and the tool schema as they were, each
\* provider call carries the request's own command and board listing, and
\* the response is a function of the request's own body and of the reply to
\* its own call.
C6_Own ==
    /\ TOOLS = ToolsDecl
    /\ \A r \in Req :
          Len(calls[r]) >= 1
             => /\ calls[r][1].human = body[r].command
                /\ calls[r][1].system = build_system_prompt(body[r].board_state).value
                /\ calls[r][1].tools = ToolsDecl
    /\ \A r1, r2 \in Req :
          (/\ result[r1].kind = "response" /\ result[r2].kind = "response"
           /\ body[r1] = body[r2] /\ response[r1] = response[r2])
             => result[r1] = result[r2]

C6_Frame ==
    /\ TOOLS' = TOOLS
    /\ \A r1, r2 \in Req : (r1 # r2 /\ Slot(r1)' # Slot(r1)) => Slot(r2)' = Slot(r2)

C6_Independent == []C6_Own /\ [][C6_Frame]_vars

C6_Witness ==
    \E r1, r2 \in Req :
        /\ pc[r1] = "done" /\ result[r1].kind = "response"
        /\ pc[r2] = "awaiting" /\ Len(calls[r2]) = 1
        /\ body[r1] # body[r2]

\* C7: GET /health answers status "ok" with the version, whatever the
\* credential and whatever requests ran or failed.
C7_HealthOk ==
    healthResp.status # "none" => healthResp = [status |-> "ok", version |-> "4.0.0"]

C7_Witness ==
    /\ healthResp.status = "ok"
    /\ env = NullVal
    /\ \E r \in Req : result[r].kind = "raised"

\* C8: /recognize-intent and /api/v2/ai-command are aliases: with the same
\* body, the same credential state and the same provider reply, both issue
\* the same provider call and end in the same response or error.
SawCredential(r) == result[r] # Raised(KeyNotSet)

C8_Aliases ==
    \A r1, r2 \in Req :
        (/\ endpoint[r1] = "/recognize-intent"
         /\ endpoint[r2] = "/api/v2/ai-command"
         /\ body[r1] = body[r2]
         /\ SawCredential(r1) = SawCredential(r2)
         /\ pc[r1] = pc[r2]
         /\ response[r1] = response[r2])
           => /\ calls[r1] = calls[r2]
              /\ result[r1] = result[r2]

C8_Witness ==
    \E r1, r2 \in Req :
        /\ endpoint[r1] = "/recognize-intent"
        /\ endpoint[r2] = "/api/v2/ai-command"
        /\ body[r1] = body[r2]
        /\ Len(body[r1].board_state) >= 1
        /\ response[r1] = response[r2]
        /\ result[r1].kind = "response"
        /\ result[r2].kind = "response"

\* C9: an empty board_state is rendered as exactly the sentence
\* "The board is empty.", and build_system_prompt puts that sentence in the
\* BOARD STATE section of the prompt.
BoardStateSection(p) ==
    IF \E i \in 1..Len(p) : p[i] = "=== BOARD STATE ==="
    THEN LET k == CHOOSE i \in 1..Len(p) : p[i] = "=== BOARD STATE ==="
         IN  SubSeq(p, k + 2, Len(p) - 1)
    ELSE <<"<no BOARD STATE section>">>

C9_EmptyBoardSentence ==
    board = <<>>
       => /\ fmt_pc \in {"rendered", "prompted"}
                => rendered = [raised |-> "none",
                               value |-> <<"T", "h", "e", " ", "b", "o", "a", "r", "d", " ",
                                           "i", "s", " ", "e", "m", "p", "t", "y", ".">>]
          /\ fmt_pc = "prompted"
                => /\ prompt.raised = "none"
                   /\ BoardStateSection(prompt.value)
                         = <<"T", "h", "e", " ", "b", "o", "a", "r", "d", " ",
                             "i", "s", " ", "e", "m", "p", "t", "y", ".">>

C9_Witness == board = <<>> /\ fmt_pc = "prompted"

\* C10: in a rendered listing, the line of each object starts with id, type,
\* x, y, w, h in that order; a missing id or type reads "?", a missing x, y,
\* width or height reads 0, and a field that is present reads its own value,
\* numbers rounded to the nearest integer.
SignedText(m) == (IF m < 0 THEN <<"-">> ELSE <<>>) \o NatDigits(Abs(m))

\* the texts that read as the number v rounded to a nearest integer
RoundedTexts(v) ==
    IF v.k = "float"
    THEN LET q == v.n \div 10
             near == {m \in (q - 1)..(q + 1) : Abs(10 * m - v.n) <= 5}
         IN  {SignedText(m) : m \in near} \cup {<<"-", "0">> : m \in near \cap {0}}
    ELSE {SignedText(v.n)}

ExpectedHeads(obj) ==
    LET idText == IF "id" \in DOMAIN obj THEN Str(obj["id"]) ELSE <<"?">>
        typeText == IF "type" \in DOMAIN obj THEN Str(obj["type"]) ELSE <<"?">>
        num(f) == IF f \in DOMAIN obj THEN RoundedTexts(obj[f]) ELSE {<<"0">>}
    IN  { <<" ", " ", "i", "d", "=">> \o idText
            \o <<" ", " ", "t", "y", "p", "e", "=">> \o typeText
            \o <<" ", " ", "x", "=">> \o tx \o <<" ", " ", "y", "=">> \o ty
            \o <<" ", " ", "w", "=">> \o tw \o <<" ", " ", "h", "=">> \o th
          : tx \in num("x"), ty \in num("y"), tw \in num("width"), th \in num("height") }

StartsWith(s, p) == Len(p) <= Len(s) /\ SubSeq(s, 1, Len(p)) = p
Occurs(p, s) == \E k \in 0..(Len(s) - Len(p)) : SubSeq(s, k + 1, k + Len(p)) = p

C10_MissingFieldsDefault ==
    (fmt_pc \in {"rendered", "prompted"} /\ board # <<>> /\ rendered.raised = "none")
       => \A i \in 1..Len(board) :
             \E h \in ExpectedHeads(board[i]) :
                IF i = 1 THEN StartsWith(rendered.value, h)
                ELSE Occurs(<<"\n">> \o h, rendered.value)

C10_Witness ==
    /\ fmt_pc = "rendered"
    /\ rendered.raised = "none"
    /\ Len(board) = 2
    /\ DOMAIN board[1] = Fields \ {"id", "type"}
    /\ DOMAIN board[2] = Fields \ {"x", "y", "width", "height"}

\* C11: a non-empty board_state of n objects is rendered as exactly n lines,
\* the i-th line describing the i-th object, whatever the id, type, color
\* and text fields hold (newline characters included).
RECURSIVE SplitLines(_)
SplitLines(s) ==
    IF \A i \in 1..Len(s) : s[i] # "\n" THEN <<s>>
    ELSE LET k == CHOOSE i \in 1..Len(s) : s[i] = "\n" /\ \A j \in 1..(i - 1) : s[j] # "\n"
         IN  <<SubSeq(s, 1, k - 1)>> \o SplitLines(SubSeq(s, k + 1, Len(s)))

LinesMatch(objs, lines) ==
    /\ Len(lines) = Len(objs)
    /\ \A i \in 1..Len(objs) : \E h \in ExpectedHeads(objs[i]) : StartsWith(lines[i], h)

C11_OneLinePerObject ==
    (fmt_pc \in {"rendered", "prompted"} /\ board # <<>> /\ rendered.raised = "none")
       => LinesMatch(board, SplitLines(rendered.value))

\* C12: the credential is read from the environment at the start of each
\* request and not kept: whatever happened before, a request started while
\* it is absent ends in the configuration error, and a request started once
\* it is set goes on to the provider call, made with the value then set.
C12_ReadPerRequest ==
    [][\A r \in Req :
          (pc[r] = "idle" /\ pc'[r] # "idle")
             => /\ env = NullVal => (pc'[r] = "done" /\ result'[r] = Raised(KeyNotSet))
                /\ Truthy(env) => /\ pc'[r] = "awaiting"
                                  /\ Len(calls'[r]) = 1
                                  /\ calls'[r][1].api_key = env]_vars

\* C13: the response's tool_calls list has the length and the order of the
\* provider reply's tool calls; the i-th entry carries the i-th call's name
\* and its args unchanged, an empty mapping where the args are missing or null.
GivenArgs(tc) == IF "args" \in DOMAIN tc THEN tc["args"] ELSE [k |-> "null", d |-> <<>>]

C13_ToolCallsPreserved ==
    \A r \in Req :
        result[r].kind = "response"
           => /\ Len(result[r].tool_calls) = Len(response[r].tool_calls)
              /\ \A i \in 1..Len(response[r].tool_calls) :
                    /\ result[r].tool_calls[i].name = response[r].tool_calls[i].name
                    /\ GivenArgs(response[r].tool_calls[i]).k = "dict"
                          => result[r].tool_calls[i].args = response[r].tool_calls[i].args.d
                    /\ GivenArgs(response[r].tool_calls[i]).k = "null"
                          => result[r].tool_calls[i].args = <<>>

C13_Witness ==
    \E r \in Req :
        /\ result[r].kind = "response"
        /\ \E i, j, k \in 1..Len(response[r].tool_calls) :
              /\ "args" \notin DOMAIN response[r].tool_calls[i]
              /\ GivenArgs(response[r].tool_calls[j]) = [k |-> "null", d |-> <<>>]
              /\ "args" \in DOMAIN response[r].tool_calls[j]
              /\ GivenArgs(response[r].tool_calls[k]).k = "dict"
              /\ GivenArgs(response[r].tool_calls[k]).d # <<>>

====
